---- MODULE Spec2Model ----
(***************************************************************************)
(* A model of the ideal-bundle planner of packages/bundlers/default/src/   *)
(* DefaultBundler.js: createIdealGraph(assetGraph, config) and the         *)
(* helpers it calls.  The planner is a pure, single-threaded function; it  *)
(* is modelled as a state machine whose initial state holds an input asset *)
(* graph and whose actions are the successive steps of createIdealGraph.   *)
(*                                                                         *)
(* Assets are the integers 1..n, a dependency is identified by its index   *)
(* in the sequence assetGraph.deps, 0 stands for the root node of the      *)
(* asset graph and for the 'root' node of asyncBundleRootGraph.  JS Sets   *)
(* and Maps whose iteration order the code depends on are sequences in     *)
(* insertion order.                                                        *)
(***************************************************************************)
EXTENDS Integers, Sequences, FiniteSets, TLC

\* ------------------------------------------------------------------------
\* Bounds of the model
\* ------------------------------------------------------------------------
\* number of assets of the generated asset graphs
NumAssets == 4
\* largest number of non-entry dependencies of the generated asset graphs
MaxDeps == 4
\* asset sizes are drawn from 1..MaxSize, config.minBundleSize from 1..MaxSize
MaxSize == 2
\* asset graphs of more assets are planned with graphOrphans = "none" only
OrphanAssets == 3
\* number of assets of the asset graphs of FanGraphs
FanAssets == 5

\* ------------------------------------------------------------------------
\* Generic helpers: Maps, insertion-ordered Sets
\* ------------------------------------------------------------------------
EmptyMap == << >>

Has(f, k) == k \in DOMAIN f

Put(f, k, v) == [x \in (DOMAIN f) \cup {k} |-> IF x = k THEN v ELSE f[x]]

Range(s) == {s[i] : i \in DOMAIN s}

\* Set.prototype.add on an insertion-ordered Set
SetAdd(s, x) == IF x \in Range(s) THEN s ELSE Append(s, x)

RECURSIVE SeqWithout(_, _)
SeqWithout(s, x) ==
  IF s = << >> THEN << >>
  ELSE IF Head(s) = x THEN SeqWithout(Tail(s), x)
  ELSE << Head(s) >> \o SeqWithout(Tail(s), x)

RECURSIVE Reverse(_)
Reverse(s) == IF s = << >> THEN << >> ELSE Append(Reverse(Tail(s)), Head(s))

RECURSIVE SumOver(_, _)
SumOver(S, f) ==
  IF S = {} THEN 0
  ELSE LET x == CHOOSE y \in S : TRUE IN f[x] + SumOver(S \ {x}, f)

\* ------------------------------------------------------------------------
\* State
\* ------------------------------------------------------------------------
VARIABLES
  graphOrphans,           \* which removals of Graph also remove orphaned nodes
  bundlerConfig,          \* what config.getConfig returns to loadBundlerConfig
  assetGraph,             \* the input: assets' fields and the dependencies
  config,                 \* the resolved config (minBundleSize)
  pc,                     \* the step of createIdealGraph that has completed
  bundleGraph,            \* Graph<Bundle>: nodes, edges, nextId
  bundles,                \* Map<string, NodeId>, keys are id lists
  bundleRoots,            \* Map<BundleRoot, [NodeId, NodeId]>: order and val
  dependencyBundleGraph,  \* dependency -> bundle edges with their label
  assetReference,         \* [asset, dependency, bundle] triples
  reachableBundles,       \* DefaultMap<BundleRoot, Set<BundleRoot>>
  asyncBundleRootGraph,   \* ContentGraph<BundleRoot | 'root'>
  bundleGroupBundleIds,   \* Array<NodeId>
  entries,                \* Map<Asset, Dependency> in insertion order
  assets,                 \* assets in discovery order of the split pass
  reachableRoots,         \* edges root -> asset
  reachableAsyncRoots,    \* DefaultMap<NodeId, Set<BundleRoot>>: keys in
                          \* insertion order, and the sets
  ancestorAssets,         \* Map<BundleRoot, Set<Asset>>: a reference per root
  setObjects,             \* the Set objects ancestorAssets refers to
  assetRefsInBundleGroup  \* DefaultMap root -> root -> asset -> count

vars == << graphOrphans, bundlerConfig, assetGraph, config, pc, bundleGraph, bundles, bundleRoots,
           dependencyBundleGraph, assetReference, reachableBundles,
           asyncBundleRootGraph, bundleGroupBundleIds, entries, assets,
           reachableRoots, reachableAsyncRoots, ancestorAssets, setObjects,
           assetRefsInBundleGroup >>

\* ------------------------------------------------------------------------
\* The input asset graph
\* ------------------------------------------------------------------------
AssetsOf(g) == 1 .. g.n

DepIds(g) == DOMAIN g.deps

\* an entry dependency hangs off the root of the asset graph
IsEntryDep(g, d) == g.deps[d].src = 0

\* Environment.isIsolated(): worker and worklet contexts
EnvIsIsolated(ctx) == ctx = "web-worker"

\* children of a node in edge insertion order: the dependencies of an asset
RECURSIVE DepsFrom(_, _, _)
DepsFrom(g, a, d) ==
  IF d > Len(g.deps) THEN << >>
  ELSE (IF g.deps[d].src = a THEN << d >> ELSE << >>) \o DepsFrom(g, a, d + 1)

\* ------------------------------------------------------------------------
\* Graph primitives (Graph / ContentGraph of @parcel/core)
\* ------------------------------------------------------------------------
EmptyGraph == [nodes |-> EmptyMap, edges |-> << >>, nextId |-> 1]

\* addNode(payload) -> nodeId : the id is g.nextId
AddNode(g, payload) ==
  [nodes |-> Put(g.nodes, g.nextId, payload),
   edges |-> g.edges,
   nextId |-> g.nextId + 1]

AddEdge(g, from, to) == [g EXCEPT !.edges = SetAdd(@, << from, to >>)]

\* Graph is not part of this package.  Its removeEdge and removeNode either
\* remove nothing but the edge, or the node and its incident edges ("none"),
\* or removeNode also removes the targets of the node's outbound edges that
\* are left without an inbound edge ("removeNode"), or removeEdge does so as
\* well and removeNode throws when the graph has no such node ("all").
OrphanModes == {"none", "removeNode", "all"}

\* removeNode throws `Does not have node`
ThrowsOnMissingNode == graphOrphans = "all"

\* isOrphanedNode(id) of a graph without a root: no inbound edge
IsOrphanedNode(g, id) ==
  Has(g.nodes, id) /\ ~ \E i \in DOMAIN g.edges : g.edges[i][2] = id

RECURSIVE EdgesWithoutInto(_, _)
EdgesWithoutInto(es, id) ==
  IF es = << >> THEN << >>
  ELSE IF Head(es)[2] = id THEN EdgesWithoutInto(Tail(es), id)
  ELSE << Head(es) >> \o EdgesWithoutInto(Tail(es), id)

RECURSIVE EdgesOutOf(_, _)
EdgesOutOf(es, id) ==
  IF es = << >> THEN << >>
  ELSE (IF Head(es)[1] = id THEN << Head(es) >> ELSE << >>)
       \o EdgesOutOf(Tail(es), id)

\* removeNode(id) of a node the graph has: the inbound edges are removed,
\* then the outbound edges one by one, each with the removal of its target
\* when that is left orphaned and removeOrphans says so, then the node
RECURSIVE RemoveNodeWith(_, _, _), RemoveOutbound(_, _, _)
RemoveNodeWith(g, id, removeOrphans) ==
  LET g1 == [g EXCEPT !.edges = EdgesWithoutInto(@, id)]
      g2 == RemoveOutbound(g1, EdgesOutOf(g1.edges, id), removeOrphans)
  IN [nodes |-> [x \in (DOMAIN g2.nodes) \ {id} |-> g2.nodes[x]],
      edges |-> g2.edges,
      nextId |-> g2.nextId]

RemoveOutbound(g, es, removeOrphans) ==
  IF es = << >> THEN g
  ELSE
    LET to == Head(es)[2]
        g1 == [g EXCEPT !.edges = SeqWithout(@, Head(es))]
        g2 == IF removeOrphans /\ IsOrphanedNode(g1, to)
              THEN RemoveNodeWith(g1, to, removeOrphans) ELSE g1
    IN RemoveOutbound(g2, Tail(es), removeOrphans)

\* removeEdge(from, to)
RemoveEdge(g, from, to) ==
  LET g1 == [g EXCEPT !.edges = SeqWithout(@, << from, to >>)]
  IN IF graphOrphans = "all" /\ IsOrphanedNode(g1, to)
     THEN RemoveNodeWith(g1, to, TRUE)
     ELSE g1

\* removeNode(id) of a node the graph has
RemoveNode(g, id) == RemoveNodeWith(g, id, graphOrphans # "none")

RECURSIVE ConnectedFromIn(_, _)
ConnectedFromIn(es, id) ==
  IF es = << >> THEN << >>
  ELSE (IF Head(es)[1] = id THEN << Head(es)[2] >> ELSE << >>)
       \o ConnectedFromIn(Tail(es), id)

\* getNodeIdsConnectedFrom(id), in edge insertion order
GetNodeIdsConnectedFrom(g, id) == ConnectedFromIn(g.edges, id)

RECURSIVE ConnectedToIn(_, _)
ConnectedToIn(es, id) ==
  IF es = << >> THEN << >>
  ELSE (IF Head(es)[2] = id THEN << Head(es)[1] >> ELSE << >>)
       \o ConnectedToIn(Tail(es), id)

\* getNodeIdsConnectedTo(id), in edge insertion order
GetNodeIdsConnectedTo(g, id) == ConnectedToIn(g.edges, id)

\* ------------------------------------------------------------------------
\* createBundle
\* ------------------------------------------------------------------------
\* createBundle with opts.asset: the bundle holds the asset; the option
\* bundleBehavior is not read, the asset's own bundleBehavior is stored.
CreateBundle(g, asset, needsStableName, optBundleBehavior) ==
  [assets |-> << asset >>,
   internalizedAssetIds |-> << >>,
   size |-> g.size[asset],
   sourceBundles |-> << >>,
   type |-> g.type[asset],
   env |-> g.ctx[asset],
   needsStableName |-> needsStableName,
   bundleBehavior |-> g.beh[asset]]

\* createBundle without opts.asset: an empty bundle of the given type and env
CreateEmptyBundle(type, env) ==
  [assets |-> << >>,
   internalizedAssetIds |-> << >>,
   size |-> 0,
   sourceBundles |-> << >>,
   type |-> type,
   env |-> env,
   needsStableName |-> FALSE,
   bundleBehavior |-> "none"]

\* ------------------------------------------------------------------------
\* Step 1: a bundle for each entry
\* ------------------------------------------------------------------------
\* The first traversal: the (asset, dependency) pairs of the entry
\* dependencies, each asset once (a traversal visits a node once), in order.
RECURSIVE CollectEntries(_, _, _)
CollectEntries(g, d, acc) ==
  IF d > Len(g.deps) THEN acc
  ELSE IF IsEntryDep(g, d) /\ ~ \E i \in DOMAIN acc : acc[i][1] = g.deps[d].dst
       THEN CollectEntries(g, d + 1, Append(acc, << g.deps[d].dst, d >>))
       ELSE CollectEntries(g, d + 1, acc)

\* asyncBundleRootGraph.addNode('root') and setRootNodeId: the root is node 0
AddRootNode(abrg) == [abrg EXCEPT !.nodes = Append(@, 0)]

\* ContentGraph.addNodeByContentKeyIfNeeded on asyncBundleRootGraph
AddRootNodeIfNeeded(abrg, a) == [abrg EXCEPT !.nodes = SetAdd(@, a)]

\* one iteration of `for (let [asset, dependency] of entries)`
EntryBundleStep(g, st, asset, d) ==
  LET bundle == CreateBundle(g, asset, IsEntryDep(g, d), "none")
      nodeId == st.bg.nextId
  IN [st EXCEPT
        !.bg = AddNode(st.bg, bundle),
        !.bundles = Put(@, << asset >>, nodeId),
        !.roots = Put(@, asset, << nodeId, nodeId >>),
        !.rootOrder = SetAdd(@, asset),
        !.abrg = AddEdge(AddRootNodeIfNeeded(@, asset), 0, asset),
        !.dbg = @ \cup {<< d, nodeId, g.deps[d].priority >>},
        !.bgIds = Append(@, nodeId)]

RECURSIVE EntryBundles(_, _, _)
EntryBundles(g, st, es) ==
  IF es = << >> THEN st
  ELSE EntryBundles(g, EntryBundleStep(g, st, Head(es)[1], Head(es)[2]),
                    Tail(es))

\* ------------------------------------------------------------------------
\* Step 1, second traversal: bundles for async and type-change dependencies
\* ------------------------------------------------------------------------
\* The walk up the stack of an async split, from frame i down to frame 1
RECURSIVE StackWalk(_, _, _, _)
StackWalk(g, st, child, i) ==
  IF i < 1 THEN st
  ELSE
    LET stackAsset == st.stack[i][1] IN
    IF g.type[stackAsset] # g.type[child]
       \/ g.ctx[stackAsset] # g.ctx[child]
       \/ EnvIsIsolated(g.ctx[stackAsset])
    THEN st
    ELSE
      LET st1 == [st EXCEPT !.rb[stackAsset] = @ \cup {child}]
          st2 == IF i = Len(st.stack)
                 THEN [st1 EXCEPT !.abrg =
                         AddEdge(AddRootNodeIfNeeded(
                                   AddRootNodeIfNeeded(@, child), stackAsset),
                                 stackAsset, child)]
                 ELSE st1
      IN StackWalk(g, st2, child, i - 1)

\* dependency.priority === 'lazy' || childAsset.bundleBehavior === 'isolated'
IsAsyncSplit(g, d) ==
  g.deps[d].priority = "lazy" \/ g.beh[g.deps[d].dst] = "isolated"

\* parentAsset.type !== childAsset.type || childAsset.bundleBehavior === 'inline'
IsTypeChangeSplit(g, d) ==
  g.type[g.deps[d].src] # g.type[g.deps[d].dst]
  \/ g.beh[g.deps[d].dst] = "inline"

AsyncSplit(g, st, d) ==
  LET dep == g.deps[d]
      child == dep.dst
      exists == Has(st.bundles, << child >>)
      bundleId == IF exists THEN st.bundles[<< child >>] ELSE st.bg.nextId
      bundle == CreateBundle(g, child,
                  IF dep.bundleBehavior = "inline" \/ g.beh[child] = "inline"
                  THEN FALSE
                  ELSE IsEntryDep(g, d) \/ dep.needsStableName,
                  IF dep.bundleBehavior # "none" THEN dep.bundleBehavior
                  ELSE g.beh[child])
      st1 == IF exists THEN st
             ELSE [st EXCEPT
                     !.bg = AddNode(st.bg, bundle),
                     !.bundles = Put(@, << child >>, bundleId),
                     !.roots = Put(@, child, << bundleId, bundleId >>),
                     !.rootOrder = SetAdd(@, child),
                     !.bgIds = Append(@, bundleId)]
      st2 == [st1 EXCEPT !.dbg = @ \cup {<< d, bundleId, dep.priority >>}]
  IN StackWalk(g, st2, child, Len(st2.stack))

TypeChangeSplit(g, st, d) ==
  LET dep == g.deps[d]
      child == dep.dst
      bundleGroupNodeId == st.stack[Len(st.stack)][2]
      bundle == CreateBundle(g, child, dep.bundleBehavior = "inline", "none")
      bundleId == st.bg.nextId
  IN [st EXCEPT
        !.bg = AddEdge(AddNode(st.bg, bundle), bundleGroupNodeId, bundleId),
        !.bundles = Put(@, << child >>, bundleId),
        !.roots = Put(@, child, << bundleId, bundleGroupNodeId >>),
        !.rootOrder = SetAdd(@, child),
        !.dbg = @ \cup {<< d, bundleId, "parallel" >>},
        !.aref = Append(@, << child, d, bundleId >>)]

\* enter(node) for a dependency node whose context is its parent asset
EnterDependency(g, st, d) ==
  IF IsEntryDep(g, d) THEN st
  ELSE IF IsAsyncSplit(g, d) THEN AsyncSplit(g, st, d)
  ELSE IF IsTypeChangeSplit(g, d) THEN TypeChangeSplit(g, st, d)
  ELSE st

\* enter(node) for an asset node
EnterAsset(g, st, a) ==
  LET st1 == [st EXCEPT !.assets = Append(@, a), !.visited = @ \cup {a}]
  IN IF Has(st1.roots, a)
     THEN [st1 EXCEPT !.stack = Append(@, << a, st1.roots[a][2] >>)]
     ELSE st1

\* exit(node)
ExitAsset(st, a) ==
  IF st.stack # << >> /\ st.stack[Len(st.stack)][1] = a
  THEN [st EXCEPT !.stack = SubSeq(@, 1, Len(@) - 1)]
  ELSE st

\* Graph.dfs: a node is entered once; its children in edge insertion order
RECURSIVE WalkAsset(_, _, _), WalkDeps(_, _, _)
WalkAsset(g, st, a) ==
  ExitAsset(WalkDeps(g, EnterAsset(g, st, a), DepsFrom(g, a, 1)), a)

WalkDeps(g, st, ds) ==
  IF ds = << >> THEN st
  ELSE
    LET d == Head(ds)
        st1 == EnterDependency(g, st, d)
        st2 == IF g.deps[d].dst \in st1.visited THEN st1
               ELSE WalkAsset(g, st1, g.deps[d].dst)
    IN WalkDeps(g, st2, Tail(ds))

\* ------------------------------------------------------------------------
\* Step 2: reachability of every asset from each bundle root
\* ------------------------------------------------------------------------
\* dependencyBundleGraph.hasContentKey(dependency.id)
HasDependencyKey(dbg, d) == \E e \in dbg : e[1] = d

\* The nodes the traversal from a root enters: the children of a dependency
\* with a key in dependencyBundleGraph are skipped.
RECURSIVE Traversed(_, _, _)
Traversed(g, dbg, S) ==
  LET next == S \cup {g.deps[d].dst :
                        d \in {x \in DepIds(g) :
                                 g.deps[x].src \in S
                                 /\ ~ HasDependencyKey(dbg, x)}}
  IN IF next = S THEN S ELSE Traversed(g, dbg, next)

\* the assets that get an edge root -> asset in reachableRoots
SyncReach(g, dbg, root) == Traversed(g, dbg, {root}) \ {root}

\* the lazy dependencies the traversal from a root stops at
LazyStops(g, dbg, root) ==
  {d \in DepIds(g) : g.deps[d].src \in Traversed(g, dbg, {root})
                     /\ HasDependencyKey(dbg, d)
                     /\ g.deps[d].priority = "lazy"}

ReachableRootsOf(g, dbg, roots) ==
  {<< r, a >> : r \in roots, a \in AssetsOf(g)} \cap
  {e \in (AssetsOf(g) \X AssetsOf(g)) : e[2] \in SyncReach(g, dbg, e[1])}

\* reachableAsyncRoots.get(bundles.get(bundleRoot.id)).add(root), all roots
ReachableAsyncRootsOf(g, dbg, bndls, roots) ==
  LET keys == {bndls[<< g.deps[d].dst >>] :
                 d \in UNION {LazyStops(g, dbg, r) : r \in roots}}
  IN [k \in keys |->
        {r \in roots : \E d \in LazyStops(g, dbg, r) :
                          bndls[<< g.deps[d].dst >>] = k}]

\* The lazy dependencies at which the traversal from a root stops, in the
\* order in which the traversal enters them: acc.visited are the asset nodes
\* entered, ds the dependencies of the asset in hand still to enter
RECURSIVE LazyStopWalk(_, _, _, _)
LazyStopWalk(g, dbg, acc, ds) ==
  IF ds = << >> THEN acc
  ELSE
    LET d == Head(ds)
        child == g.deps[d].dst
        acc1 ==
          IF HasDependencyKey(dbg, d)
          THEN (IF g.deps[d].priority = "lazy"
                THEN [acc EXCEPT !.stops = Append(@, d)] ELSE acc)
          ELSE IF child \in acc.visited THEN acc
          ELSE LazyStopWalk(g, dbg,
                            [acc EXCEPT !.visited = @ \cup {child}],
                            DepsFrom(g, child, 1))
    IN LazyStopWalk(g, dbg, acc1, Tail(ds))

LazyStopSeq(g, dbg, root) ==
  LazyStopWalk(g, dbg, [visited |-> {root}, stops |-> << >>],
               DepsFrom(g, root, 1)).stops

RECURSIVE AddKeys(_, _, _, _)
AddKeys(g, bndls, order, ds) ==
  IF ds = << >> THEN order
  ELSE AddKeys(g, bndls, SetAdd(order, bndls[<< g.deps[Head(ds)].dst >>]),
               Tail(ds))

\* the keys of reachableAsyncRoots in the order in which step 2 inserts them:
\* `for (let [root] of bundleRoots)`, and for each root its traversal
RECURSIVE ReachableAsyncRootsOrder(_, _, _, _, _)
ReachableAsyncRootsOrder(g, dbg, bndls, rootOrder, order) ==
  IF rootOrder = << >> THEN order
  ELSE ReachableAsyncRootsOrder(
         g, dbg, bndls, Tail(rootOrder),
         AddKeys(g, bndls, order, LazyStopSeq(g, dbg, Head(rootOrder))))

\* getReachableBundleRoots(asset, reachableRoots): inbound edges were added
\* root by root, in the order of bundleRoots
RECURSIVE SelectRoots(_, _, _)
SelectRoots(order, rr, asset) ==
  IF order = << >> THEN << >>
  ELSE (IF << Head(order), asset >> \in rr THEN << Head(order) >> ELSE << >>)
       \o SelectRoots(Tail(order), rr, asset)

getReachableBundleRoots(asset, order, rr) == SelectRoots(order, rr, asset)

\* ------------------------------------------------------------------------
\* Step 2.5: assets available from the ancestors of each bundle root
\* ------------------------------------------------------------------------
\* Graph.topoSort yields node ids, every edge u -> v placing u before v; the
\* back-edges of a cycle are ignored for the ordering. The back-edges are
\* those of the depth-first traversal that starts at the root node (line 298)
\* and then at the other nodes in the order of their insertion.
RECURSIVE TopoVisit(_, _, _), TopoChildren(_, _, _, _)
TopoVisit(abrg, acc, node) ==
  LET acc1 == [acc EXCEPT !.visited = @ \cup {node}, !.stack = @ \cup {node}]
      acc2 == TopoChildren(abrg, acc1, node, GetNodeIdsConnectedFrom(abrg, node))
  IN [acc2 EXCEPT !.stack = @ \ {node}]

TopoChildren(abrg, acc, node, cs) ==
  IF cs = << >> THEN acc
  ELSE IF Head(cs) \in acc.stack
  THEN TopoChildren(abrg, [acc EXCEPT !.back = @ \cup {<< node, Head(cs) >>}],
                    node, Tail(cs))
  ELSE IF Head(cs) \in acc.visited THEN TopoChildren(abrg, acc, node, Tail(cs))
  ELSE TopoChildren(abrg, TopoVisit(abrg, acc, Head(cs)), node, Tail(cs))

RECURSIVE TopoStarts(_, _, _)
TopoStarts(abrg, acc, ns) ==
  IF ns = << >> THEN acc
  ELSE TopoStarts(abrg,
                  IF Head(ns) \in acc.visited THEN acc
                  ELSE TopoVisit(abrg, acc, Head(ns)),
                  Tail(ns))

BackEdges(abrg) ==
  TopoStarts(abrg, [visited |-> {}, stack |-> {}, back |-> {}], abrg.nodes).back

\* the orders of the nodes in `rest` in which every edge that is not a
\* back-edge places its source first
RECURSIVE TopoOrders(_, _, _)
TopoOrders(es, back, rest) ==
  IF rest = {} THEN {<< >>}
  ELSE UNION {{<< n >> \o o : o \in TopoOrders(es, back, rest \ {n})} :
                n \in {x \in rest :
                         \A e \in es \ back : e[2] = x => e[1] \notin rest}}

\* the nodes that the traversal from the root node visits
ReachableFromRoot(abrg) ==
  TopoVisit(abrg, [visited |-> {}, stack |-> {}, back |-> {}], 0).visited

\* the orders topoSort can yield, which of them the Graph decides: the nodes
\* are those a traversal from the root node set at line 298 visits, or all
\* the nodes of the graph
topoSort(abrg) ==
  TopoOrders(Range(abrg.edges), BackEdges(abrg), ReachableFromRoot(abrg))
  \cup TopoOrders(Range(abrg.edges), BackEdges(abrg), Range(abrg.nodes))

\* reachableRoots.getNodeIdsConnectedFrom(root), as a set
ConnectedFromRoot(rr, root) == {e[2] : e \in {x \in rr : x[1] = root}}

\* setUnion(a, b): a new Set
setUnion(a, b) == a \cup b

\* setIntersect(a, b): removes from a, in place, what is not in b
setIntersect(a, b) == a \cap b

\* `for (let asset of bundleInGroup.assets) if (bundleRoots.has(asset)) ...`
RECURSIVE LastRootIn(_, _, _)
LastRootIn(as, roots, prev) ==
  IF as = << >> THEN prev
  ELSE LastRootIn(Tail(as), roots, IF Has(roots, Head(as)) THEN Head(as) ELSE prev)

RECURSIVE SetToSeq(_)
SetToSeq(S) ==
  IF S = {} THEN << >>
  ELSE LET x == CHOOSE y \in S : \A z \in S : y <= z
       IN << x >> \o SetToSeq(S \ {x})

\* the reference counts of the assets of one bundle of the bundle group
RECURSIVE CountAssets(_, _, _, _)
CountAssets(c, bundleRoot, rig, as) ==
  IF as = << >> THEN c
  ELSE
    LET asset == Head(as)
        n == IF asset \in c.avail
             THEN (IF Has(c.aux, asset) THEN c.aux[asset] ELSE 0) + 1
             ELSE 1
        c1 == [c EXCEPT !.avail = @ \cup {asset},
                        !.aux = Put(@, asset, n),
                        !.refs = Put(@, << bundleRoot, rig, asset >>, n)]
    IN CountAssets(c1, bundleRoot, rig, Tail(as))

\* first loop over the bundles of the bundle group
RECURSIVE GroupCounts(_, _, _, _, _, _)
GroupCounts(bg, roots, rr, c, bundleRoot, ids) ==
  IF ids = << >> THEN c
  ELSE
    LET bundleInGroup == bg.nodes[Head(ids)]
        rig == LastRootIn(bundleInGroup.assets, roots, c.rig)
        assetsFromBundleRoot ==
          SetToSeq(ConnectedFromRoot(rr, rig)) \o bundleInGroup.assets
        c1 == IF bundleInGroup.bundleBehavior # "isolated"
                 /\ bundleInGroup.bundleBehavior # "inline"
              THEN CountAssets([c EXCEPT !.rig = rig], bundleRoot, rig,
                               assetsFromBundleRoot)
              ELSE [c EXCEPT !.rig = rig]
    IN GroupCounts(bg, roots, rr, c1, bundleRoot, Tail(ids))

\* second loop over the bundles of the bundle group: ancestorAssets of the
\* bundle roots of the group.  availId is the Set object
\* availableAssetsfromBundleGroup; setIntersection is not defined, so that
\* branch throws.
RECURSIVE GroupAncestors(_, _, _, _, _, _)
GroupAncestors(bg, roots, s, rig0, availId, ids) ==
  IF ids = << >> \/ s.failed THEN s
  ELSE
    LET bundleIdInGroup == Head(ids)
        rig == LastRootIn(bg.nodes[bundleIdInGroup].assets, roots, rig0)
        s1 == IF ~ Has(s.anc, rig)
              THEN [s EXCEPT !.anc = Put(@, rig, availId)]
              ELSE IF Len(GetNodeIdsConnectedTo(bg, bundleIdInGroup)) > 1
              THEN [s EXCEPT !.failed = TRUE]
              ELSE [s EXCEPT
                      !.objs = Append(@, setUnion(s.objs[availId],
                                                  s.objs[s.anc[rig]])),
                      !.anc = Put(@, rig, Len(s.objs) + 1)]
    IN GroupAncestors(bg, roots, s1, rig, availId, Tail(ids))

\* `for (let childId of children)`: combinedId is the Set object `combined`
RECURSIVE ChildAncestors(_, _, _)
ChildAncestors(s, combinedId, cs) ==
  IF cs = << >> THEN s
  ELSE
    LET child == Head(cs)
        s1 == IF ~ Has(s.anc, child)
              THEN [s EXCEPT !.anc = Put(@, child, combinedId)]
              ELSE [s EXCEPT !.objs[s.anc[child]] =
                               setIntersect(@, s.objs[combinedId])]
    IN ChildAncestors(s1, combinedId, Tail(cs))

\* one iteration of `for (let nodeId of asyncBundleRootGraph.topoSort())`
AncestorStep(bg, roots, rr, abrg, s, bundleRoot) ==
  LET syncAssetsLoaded == ConnectedFromRoot(rr, bundleRoot)
      hasAncestors == Has(s.anc, bundleRoot)
      ancestors == IF hasAncestors THEN s.objs[s.anc[bundleRoot]] ELSE {}
      bundleGroupId == roots[bundleRoot][2]
      group == GetNodeIdsConnectedFrom(bg, bundleGroupId)
      c == GroupCounts(bg, roots, rr,
                       [avail |-> syncAssetsLoaded, aux |-> EmptyMap,
                        refs |-> s.refs, rig |-> 0],
                       bundleRoot, group)
      availId == Len(s.objs) + 1
      s1 == [s EXCEPT !.objs = Append(@, c.avail), !.refs = c.refs]
      s2 == GroupAncestors(bg, roots, s1, c.rig, availId, group)
      combined == IF hasAncestors THEN setUnion(ancestors, syncAssetsLoaded)
                  ELSE syncAssetsLoaded
      combinedId == Len(s2.objs) + 1
      s3 == [s2 EXCEPT !.objs = Append(@, combined)]
  IN IF s2.failed THEN s2
     ELSE ChildAncestors(s3, combinedId, GetNodeIdsConnectedFrom(abrg, bundleRoot))

RECURSIVE AncestorLoop(_, _, _, _, _, _)
AncestorLoop(bg, roots, rr, abrg, s, order) ==
  IF order = << >> \/ s.failed THEN s
  ELSE IF Head(order) = 0
  THEN AncestorLoop(bg, roots, rr, abrg, s, Tail(order))
  ELSE AncestorLoop(bg, roots, rr, abrg,
                    AncestorStep(bg, roots, rr, abrg, s, Head(order)),
                    Tail(order))

\* ------------------------------------------------------------------------
\* Step 3: placement of the assets into bundles
\* ------------------------------------------------------------------------
\* the predicate of `reachable = reachable.filter(b => ...)`
KeepReachable(bg, roots, anc, objs, refs, asset, b) ==
  LET one == ~ (Has(anc, b) /\ asset \in objs[anc[b]])
      assetsBundleGroupRoot == bg.nodes[roots[b][2]].assets[1]
      key == << assetsBundleGroupRoot, b, asset >>
      two == ~ ((IF Has(refs, key) THEN refs[key] ELSE 0) > 1)
  IN IF ~ one THEN FALSE ELSE two

RECURSIVE FilterReachable(_, _, _, _, _, _, _)
FilterReachable(bg, roots, anc, objs, refs, asset, rs) ==
  IF rs = << >> THEN << >>
  ELSE (IF KeepReachable(bg, roots, anc, objs, refs, asset, Head(rs))
        THEN << Head(rs) >> ELSE << >>)
       \o FilterReachable(bg, roots, anc, objs, refs, asset, Tail(rs))

\* `for (let reachableAsset of reachable) bundleGraph.addEdge(group, bundle)`
RECURSIVE AddGroupEdges(_, _, _, _, _)
AddGroupEdges(bg, roots, asset, bundleId, rs) ==
  IF rs = << >> THEN bg
  ELSE AddGroupEdges(
         IF Head(rs) # asset THEN AddEdge(bg, roots[Head(rs)][2], bundleId)
         ELSE bg,
         roots, asset, bundleId, Tail(rs))

\* the predicate of `willInternalizeRoots = reachableAsync.filter(b => ...)`
WillInternalize(rb, allReachable, b) ==
  ~ \A i \in DOMAIN allReachable :
      ~ (allReachable[i] = b \/ b \in rb[allReachable[i]])

\* `for (let bundleRoot of willInternalizeRoots) ...push(asset.id)`
RECURSIVE Internalize(_, _, _, _)
Internalize(bg, bndls, asset, bs) ==
  IF bs = << >> THEN bg
  ELSE Internalize(
         IF Head(bs) # asset
         THEN [bg EXCEPT !.nodes[bndls[<< Head(bs) >>]].internalizedAssetIds =
                           Append(@, asset)]
         ELSE bg,
         bndls, asset, Tail(bs))

RECURSIVE SelectSeqIn(_, _)
SelectSeqIn(s, S) ==
  IF s = << >> THEN << >>
  ELSE (IF Head(s) \in S THEN << Head(s) >> ELSE << >>) \o SelectSeqIn(Tail(s), S)

RECURSIVE MapBundles(_, _)
MapBundles(bndls, rs) ==
  IF rs = << >> THEN << >>
  ELSE << bndls[<< Head(rs) >>] >> \o MapBundles(bndls, Tail(rs))

\* `for (let sourceBundleId of sourceBundles) bundleGraph.addEdge(...)`
RECURSIVE AddSourceEdges(_, _, _)
AddSourceEdges(bg, bundleId, srcs) ==
  IF srcs = << >> THEN bg
  ELSE AddSourceEdges(
         IF bundleId # Head(srcs) THEN AddEdge(bg, Head(srcs), bundleId) ELSE bg,
         bundleId, Tail(srcs))

\* the bundle-root branch of the placement of one asset
PlaceRoot(g, p, roots, order, rr, rar, rb, asset, reachable) ==
  LET rootBundle == roots[asset]
      bndls == IF Has(p.bundles, << asset >>) THEN p.bundles
               ELSE Put(p.bundles, << asset >>, rootBundle[1])
      bg1 == AddGroupEdges(p.bg, roots, asset, rootBundle[1], reachable)
      reachableAsync ==
        IF Has(rar, rootBundle[1])
        THEN SelectSeqIn(order, rar[rootBundle[1]]) ELSE << >>
      allReachable == getReachableBundleRoots(asset, order, rr)
      willInternalizeRoots ==
        SelectSeqIn(reachableAsync,
                    {b \in Range(reachableAsync) :
                       WillInternalize(rb, allReachable, b)})
  IN [bg |-> Internalize(bg1, bndls, asset, willInternalizeRoots),
      bundles |-> bndls]

\* the shared-bundle branch of the placement of one asset
PlaceShared(g, p, asset, reachable) ==
  LET sourceBundles == MapBundles(p.bundles, reachable)
      key == reachable
      exists == Has(p.bundles, key)
      bundleId == IF exists THEN p.bundles[key] ELSE p.bg.nextId
      firstSourceBundle == p.bg.nodes[sourceBundles[1]]
      created == [CreateEmptyBundle(firstSourceBundle.type, firstSourceBundle.env)
                    EXCEPT !.sourceBundles = sourceBundles]
      bg1 == IF exists THEN p.bg ELSE AddNode(p.bg, created)
      bg2 == [bg1 EXCEPT !.nodes[bundleId].assets = SetAdd(@, asset),
                         !.nodes[bundleId].size = @ + g.size[asset]]
  IN [bg |-> AddSourceEdges(bg2, bundleId, sourceBundles),
      bundles |-> IF exists THEN p.bundles ELSE Put(p.bundles, key, bundleId)]

\* one iteration of `for (let asset of assets)`
PlaceAsset(g, p, roots, order, rr, rar, rb, anc, objs, refs, asset) ==
  LET reachable ==
        FilterReachable(p.bg, roots, anc, objs, refs, asset,
                        getReachableBundleRoots(asset, order, rr))
  IN IF Has(roots, asset)
     THEN PlaceRoot(g, p, roots, order, rr, rar, rb, asset, reachable)
     ELSE IF Len(reachable) > 0 THEN PlaceShared(g, p, asset, reachable)
     ELSE p

RECURSIVE PlaceAll(_, _, _, _, _, _, _, _, _, _, _)
PlaceAll(g, p, roots, order, rr, rar, rb, anc, objs, refs, as) ==
  IF as = << >> THEN p
  ELSE PlaceAll(g,
                PlaceAsset(g, p, roots, order, rr, rar, rb, anc, objs, refs,
                           Head(as)),
                roots, order, rr, rar, rb, anc, objs, refs, Tail(as))

\* ------------------------------------------------------------------------
\* Step 4: merge and cleanup
\* ------------------------------------------------------------------------
\* `bundle.assets.add(asset); bundle.size += asset.stats.size` for each asset
RECURSIVE AddAssets(_, _, _)
AddAssets(g, bundle, as) ==
  IF as = << >> THEN bundle
  ELSE AddAssets(g,
                 [bundle EXCEPT !.assets = SetAdd(@, Head(as)),
                                !.size = @ + g.size[Head(as)]],
                 Tail(as))

RECURSIVE AddToSources(_, _, _, _)
AddToSources(g, bg, as, srcs) ==
  IF srcs = << >> THEN bg
  ELSE AddToSources(g,
                    [bg EXCEPT !.nodes[Head(srcs)] = AddAssets(g, @, as)],
                    as, Tail(srcs))

\* removeBundle with the assets copied into the first source bundle only
removeBundleFirstSource(g, bg, bundleId) ==
  LET bundle == bg.nodes[bundleId]
  IN RemoveNode(AddToSources(g, bg, bundle.assets,
                             SubSeq(bundle.sourceBundles, 1, 1)),
                bundleId)

\* removeBundle(bundleGraph, bundleId)
removeBundle(g, bg, bundleId) ==
  LET bundle == bg.nodes[bundleId]
  IN RemoveNode(AddToSources(g, bg, bundle.assets, bundle.sourceBundles),
                bundleId)

\* IsSmallShared with the threshold off by one
IsSmallSharedOffByOne(bundle, cfg) ==
  Len(bundle.sourceBundles) > 0 /\ bundle.size < cfg.minBundleSize - 1

\* the condition of the small-shared merge
IsSmallShared(bundle, cfg) ==
  Len(bundle.sourceBundles) > 0 /\ bundle.size < cfg.minBundleSize

\* `for (let [bundleNodeId, bundle] of bundleGraph.nodes)`
RECURSIVE MergeSmall(_, _, _, _)
MergeSmall(g, cfg, bg, ids) ==
  IF ids = << >> THEN bg
  ELSE MergeSmall(g, cfg,
                  IF Has(bg.nodes, Head(ids)) /\ IsSmallShared(bg.nodes[Head(ids)], cfg)
                  THEN removeBundle(g, bg, Head(ids)) ELSE bg,
                  Tail(ids))

\* Array.prototype.indexOf, 1-based; 0 when absent
RECURSIVE IndexOf(_, _, _)
IndexOf(s, x, i) ==
  IF i > Len(s) THEN 0 ELSE IF s[i] = x THEN i ELSE IndexOf(s, x, i + 1)

\* splice(index, 1)
Splice1(s, i) == SubSeq(s, 1, i - 1) \o SubSeq(s, i + 1, Len(s))

\* `bundle.assets.add(asset); bundle.size += ...` on a bundle object that
\* may no longer be a node of the graph
AddAssetsTo(g, bg, id, as) ==
  IF Has(bg.nodes, id) THEN [bg EXCEPT !.nodes[id] = AddAssets(g, @, as)]
  ELSE bg

\* `sibling.sourceBundles` is assigned on the sibling object
SetSourceBundles(bg, id, srcs) ==
  IF Has(bg.nodes, id) THEN [bg EXCEPT !.nodes[id].sourceBundles = srcs]
  ELSE bg

\* reachableAsyncRoots.get(siblingId).delete(entryAsset) on a DefaultMap:
\* a missing key is inserted with an empty set
DeleteReacher(rar, siblingId, entryAsset) ==
  [order |-> SetAdd(rar.order, siblingId),
   val |-> Put(rar.val, siblingId,
               (IF Has(rar.val, siblingId) THEN rar.val[siblingId] ELSE {})
               \ {entryAsset})]

\* FoldSibling with the test of the types inverted: siblings of the type of
\* the entry bundle are skipped
FoldSiblingOtherType(g, f, entryAsset, entryBundleId, siblingId) ==
  IF ~ Has(f.bg.nodes, siblingId) THEN [f EXCEPT !.failed = TRUE]
  ELSE
    LET sibling == f.bg.nodes[siblingId]
        bg1 == AddAssetsTo(g, f.bg, entryBundleId, sibling.assets)
    IN IF sibling.type = f.entryType THEN f
       ELSE [f EXCEPT !.bg = RemoveEdge(bg1, entryBundleId, siblingId),
                      !.rar = DeleteReacher(f.rar, siblingId, entryAsset)]

\* the body of `for (let siblingId of ...getNodeIdsConnectedFrom(entryBundleId))`
\* f.entryType is the type of the entry bundle object
FoldSibling(g, f, entryAsset, entryBundleId, siblingId) ==
  IF ~ Has(f.bg.nodes, siblingId) THEN [f EXCEPT !.failed = TRUE]
  ELSE
    LET sibling == f.bg.nodes[siblingId] IN
    IF sibling.type # f.entryType THEN f
    ELSE
      LET bg1 == AddAssetsTo(g, f.bg, entryBundleId, sibling.assets)
          bg2 == RemoveEdge(bg1, entryBundleId, siblingId)
          rar1 == DeleteReacher(f.rar, siblingId, entryAsset)
          entryBundleIndex == IndexOf(sibling.sourceBundles, entryBundleId, 1)
          spliced == Splice1(sibling.sourceBundles, entryBundleIndex)
      IN IF Len(sibling.sourceBundles) > 1
         THEN IF entryBundleIndex = 0
              THEN [f EXCEPT !.bg = bg2, !.rar = rar1, !.failed = TRUE]
              ELSE IF Len(spliced) = 1
              THEN LET id == spliced[1]
                       bg3 == SetSourceBundles(bg2, siblingId, << >>)
                   IN IF ~ Has(bg3.nodes, id)
                      THEN [f EXCEPT !.bg = bg3, !.rar = rar1, !.failed = TRUE]
                      ELSE [f EXCEPT
                              !.bg = RemoveEdge(
                                       AddAssetsTo(g, bg3, id, sibling.assets),
                                       id, siblingId),
                              !.rar = rar1]
              ELSE [f EXCEPT !.bg = SetSourceBundles(bg2, siblingId, spliced),
                             !.rar = rar1]
         ELSE [f EXCEPT !.bg = bg2, !.rar = rar1]

RECURSIVE FoldSiblings(_, _, _, _, _)
FoldSiblings(g, f, entryAsset, entryBundleId, sibs) ==
  IF sibs = << >> \/ f.failed THEN f
  ELSE FoldSiblings(g, FoldSibling(g, f, entryAsset, entryBundleId, Head(sibs)),
                    entryAsset, entryBundleId, Tail(sibs))

\* `for (let entryAsset of entries.keys())`; nullthrows(bundleGraph.getNode(
\* entryBundleId)) throws when the entry bundle is no longer in the graph
RECURSIVE FoldEntries(_, _, _, _)
FoldEntries(g, f, roots, es) ==
  IF es = << >> \/ f.failed THEN f
  ELSE
    LET entryAsset == Head(es)[1]
        entryBundleId == roots[entryAsset][1]
    IN IF ~ Has(f.bg.nodes, entryBundleId) THEN [f EXCEPT !.failed = TRUE]
       ELSE FoldEntries(
              g,
              FoldSiblings(g,
                           [f EXCEPT !.entryType = f.bg.nodes[entryBundleId].type],
                           entryAsset, entryBundleId,
                           GetNodeIdsConnectedFrom(f.bg, entryBundleId)),
              roots, Tail(es))

\* `for (let [asyncBundleRoot, dependentRoots] of reachableAsyncRoots)`, in
\* the insertion order of the keys; d.failed: removeNode has thrown
RECURSIVE DropOrphans(_, _, _)
DropOrphans(d, rar, ids) ==
  IF ids = << >> \/ d.failed THEN d
  ELSE DropOrphans(
         IF rar[Head(ids)] # {} THEN d
         ELSE IF Has(d.bg.nodes, Head(ids))
         THEN [d EXCEPT !.bg = RemoveNode(d.bg, Head(ids))]
         ELSE IF ThrowsOnMissingNode THEN [d EXCEPT !.failed = TRUE]
         ELSE d,
         rar, Tail(ids))

\* ------------------------------------------------------------------------
\* Input asset graphs
\* ------------------------------------------------------------------------
Types == {"js", "css"}
Contexts == {"browser", "web-worker"}
Behaviors == {"none", "inline", "isolated"}
Priorities == {"sync", "lazy"}

Dep(s, t, p) ==
  [src |-> s, dst |-> t, priority |-> p, bundleBehavior |-> "none",
   needsStableName |-> FALSE]

\* A dependency between two different assets of 1..n is coded as a number;
\* the dependencies of a generated graph are in the order of their codes:
\* by source, then by target, then by priority.
DepCodes(n) ==
  {((s - 1) * n + (t - 1)) * 2 + p :
     s \in 1 .. n, t \in 1 .. n, p \in 0 .. 1} \
  {((s - 1) * n + (s - 1)) * 2 + p : s \in 1 .. n, p \in 0 .. 1}

\* lazyFirst: whether the lazy or the sync dependency of a pair comes first
DepOfCode(n, c, lazyFirst) ==
  Dep(((c \div 2) \div n) + 1, ((c \div 2) % n) + 1,
      IF (c % 2 = 0) = lazyFirst THEN "lazy" ELSE "sync")

RECURSIVE SubsetsUpTo(_, _)
SubsetsUpTo(S, k) ==
  IF k = 0 THEN {{}}
  ELSE LET smaller == SubsetsUpTo(S, k - 1)
       IN smaller \cup
          UNION {{q \cup {x} : x \in S \ q} :
                   q \in {y \in smaller : Cardinality(y) = k - 1}}

RECURSIVE DepsOfCodes(_, _, _)
DepsOfCodes(n, cs, lazyFirst) ==
  IF cs = << >> THEN << >>
  ELSE << DepOfCode(n, Head(cs), lazyFirst) >> \o DepsOfCodes(n, Tail(cs), lazyFirst)

\* the dependencies from an asset to one of greater number
ForwardCodes(n) == {c \in DepCodes(n) : (c \div 2) \div n < (c \div 2) % n}

\* the sequences of at most k of the dependencies coded by codes
DepSeqs(n, codes, k) ==
  {DepsOfCodes(n, SetToSeq(q), lf) :
     q \in SubsetsUpTo(codes, k), lf \in BOOLEAN}

\* the entry dependencies: asset 1 is an entry, asset 2 may be one as well
EntryChoices(n) ==
  {<< Dep(0, 1, "sync") >>}
  \cup (IF n >= 2 THEN {<< Dep(0, 1, "sync"), Dep(0, 2, "sync") >>} ELSE {})

RECURSIVE Descendants(_, _)
Descendants(deps, S) ==
  LET next == S \cup {deps[d].dst : d \in {x \in DOMAIN deps : deps[x].src \in S}}
  IN IF next = S THEN S ELSE Descendants(deps, next)

\* every asset of the graph is reachable from the root of the asset graph
Connected(n, deps) == Descendants(deps, {0}) = 0 .. n

\* the graphs of n assets and at most k of the dependencies coded by codes,
\* with the assets' fields drawn from the given sets of functions
Graphs(n, codes, k, types, ctxs, behs, sizes) ==
  {[n |-> n, type |-> ty, ctx |-> cx, beh |-> bh, size |-> sz, deps |-> ds] :
     ty \in types, cx \in ctxs, bh \in behs, sz \in sizes,
     ds \in {x \in {es \o q : es \in EntryChoices(n),
                               q \in DepSeqs(n, codes, k)} :
               Connected(n, x)}}

Uniform(n, v) == {[a \in 1 .. n |-> v]}

\* at most one asset, not asset 1, is inline or isolated
OneSpecial(n) ==
  Uniform(n, "none") \cup
  {[a \in 1 .. n |-> IF a = x THEN b ELSE "none"] :
     x \in 2 .. n, b \in {"inline", "isolated"}}

\* asset 1 is of type js
TypesFrom1(n) == {ty \in [1 .. n -> Types] : ty[1] = "js"}

\* Graphs that differ in their dependencies only: the acyclic ones of
\* NumAssets assets, and all of up to NumAssets - 1 assets.
StructGraphs ==
  Graphs(NumAssets, ForwardCodes(NumAssets), MaxDeps,
         Uniform(NumAssets, "js"), Uniform(NumAssets, "browser"),
         Uniform(NumAssets, "none"), Uniform(NumAssets, 1))
  \cup
  UNION {Graphs(n, DepCodes(n), MaxDeps - 1, Uniform(n, "js"),
                Uniform(n, "browser"), Uniform(n, "none"), Uniform(n, 1)) :
           n \in 1 .. NumAssets - 1}

\* Acyclic graphs of up to NumAssets - 1 assets that differ in the types and
\* the bundleBehavior of the assets
AttrGraphs ==
  UNION {Graphs(n, ForwardCodes(n), MaxDeps - 1, TypesFrom1(n),
                Uniform(n, "browser"), OneSpecial(n), Uniform(n, 1)) :
           n \in 1 .. NumAssets - 1}

\* Acyclic graphs of up to NumAssets - 1 assets that differ in the contexts
\* of the environments of the assets
CtxGraphs ==
  UNION {Graphs(n, ForwardCodes(n), MaxDeps - 1, Uniform(n, "js"),
                [1 .. n -> Contexts], Uniform(n, "none"), Uniform(n, 1)) :
           n \in 1 .. NumAssets - 1}

\* Acyclic graphs of up to NumAssets - 1 assets that differ in the sizes
SizeGraphs ==
  UNION {Graphs(n, ForwardCodes(n), MaxDeps - 1, Uniform(n, "js"),
                Uniform(n, "browser"), Uniform(n, "none"),
                [1 .. n -> 1 .. MaxSize]) :
           n \in 1 .. NumAssets - 1}

\* Acyclic graphs of NumAssets assets that differ in the types
TypedGraphs ==
  Graphs(NumAssets, ForwardCodes(NumAssets), MaxDeps, TypesFrom1(NumAssets),
         Uniform(NumAssets, "browser"), Uniform(NumAssets, "none"),
         Uniform(NumAssets, 1))

\* Acyclic js graphs of up to NumAssets - 1 assets in which one dependency
\* between two assets has a bundleBehavior of its own
DepBehaviorGraphs ==
  UNION {{[g EXCEPT !.deps[d].bundleBehavior = b] :
            d \in {x \in DepIds(g) : ~ IsEntryDep(g, x)},
            b \in {"inline", "isolated"}} :
           g \in UNION {Graphs(n, ForwardCodes(n), MaxDeps - 1,
                               Uniform(n, "js"), Uniform(n, "browser"),
                               OneSpecial(n), Uniform(n, 1)) :
                          n \in 2 .. NumAssets - 1}}

\* the dependencies of the graphs of FanGraphs: from assets 1 and 2 to the
\* assets 3 .. n - 1, and from the assets 1 .. n - 1 to asset n, of the other
\* priority
FanCodes(n) ==
  {((s - 1) * n + (t - 1)) * 2 : s \in 1 .. 2, t \in 3 .. n - 1}
  \cup {((s - 1) * n + (n - 1)) * 2 + 1 : s \in 1 .. n - 1}

\* js graphs of FanAssets assets: assets 1 and 2 import the middle assets
\* (lazily, say) and the last asset is imported by any of the others
\* (synchronously then)
FanGraphs ==
  Graphs(FanAssets, FanCodes(FanAssets), MaxDeps + 1,
         Uniform(FanAssets, "js"), Uniform(FanAssets, "browser"),
         Uniform(FanAssets, "none"), Uniform(FanAssets, 1))

InputGraphs ==
  StructGraphs \cup AttrGraphs \cup CtxGraphs \cup SizeGraphs \cup TypedGraphs
  \cup DepBehaviorGraphs \cup FanGraphs

Configs == {[minBundleSize |-> m] : m \in 1 .. MaxSize}

\* ------------------------------------------------------------------------
\* The state machine
\* ------------------------------------------------------------------------
InitPlanner ==
  /\ pc = "start"
  /\ bundleGraph = EmptyGraph
  /\ bundles = EmptyMap
  /\ bundleRoots = [order |-> << >>, val |-> EmptyMap]
  /\ dependencyBundleGraph = {}
  /\ assetReference = << >>
  /\ reachableBundles = [a \in AssetsOf(assetGraph) |-> {}]
  /\ asyncBundleRootGraph = [nodes |-> << >>, edges |-> << >>]
  /\ bundleGroupBundleIds = << >>
  /\ entries = << >>
  /\ assets = << >>
  /\ reachableRoots = {}
  /\ reachableAsyncRoots = [order |-> << >>, val |-> EmptyMap]
  /\ ancestorAssets = EmptyMap
  /\ setObjects = << >>
  /\ assetRefsInBundleGroup = EmptyMap

\* ------------------------------------------------------------------------
\* loadBundlerConfig
\* ------------------------------------------------------------------------
\* Default options by http version
HTTP_OPTIONS ==
  [h \in {1, 2} |->
     IF h = 1
     THEN [minBundles |-> 1, minBundleSize |-> 30000, maxParallelRequests |-> 6]
     ELSE [minBundles |-> 1, minBundleSize |-> 20000, maxParallelRequests |-> 25]]

\* `contents.field ?? default`: a field that is absent (or null) is nullish
Nullish(contents, field, default) ==
  IF field \in DOMAIN contents THEN contents[field] ELSE default

\* loadBundlerConfig with `||` in the place of `??`
loadBundlerConfigFalsy(conf) ==
  LET Or(contents, field, default) ==
        IF field \in DOMAIN contents /\ contents[field] # 0
        THEN contents[field] ELSE default
  IN IF ~ conf.found THEN HTTP_OPTIONS[2]
     ELSE
       LET http == Or(conf.contents, "http", 2)
           defaults == HTTP_OPTIONS[http]
       IN [minBundles |-> Or(conf.contents, "minBundles", defaults.minBundles),
           minBundleSize |->
             Or(conf.contents, "minBundleSize", defaults.minBundleSize),
           maxParallelRequests |->
             Or(conf.contents, "maxParallelRequests",
                defaults.maxParallelRequests)]

\* loadBundlerConfig(config, options), for contents the schema accepts
loadBundlerConfig(conf) ==
  IF ~ conf.found THEN HTTP_OPTIONS[2]
  ELSE
    LET http == Nullish(conf.contents, "http", 2)
        defaults == HTTP_OPTIONS[http]
    IN [minBundles |-> Nullish(conf.contents, "minBundles", defaults.minBundles),
        minBundleSize |->
          Nullish(conf.contents, "minBundleSize", defaults.minBundleSize),
        maxParallelRequests |->
          Nullish(conf.contents, "maxParallelRequests",
                  defaults.maxParallelRequests)]

\* no config for the package key
NoBundlerConfig == [found |-> FALSE]

ConfigFields == {"http", "minBundles", "minBundleSize", "maxParallelRequests"}

\* the numbers a config gives
ConfigNumbers == {0, 1, 2, 40000}

\* CONFIG_SCHEMA: numbers, http one of the keys of HTTP_OPTIONS
ValidContents ==
  {c \in UNION {[S -> ConfigNumbers] : S \in SUBSET ConfigFields} :
     "http" \in DOMAIN c => c["http"] \in DOMAIN HTTP_OPTIONS}

BundlerConfigs ==
  {NoBundlerConfig} \cup {[found |-> TRUE, contents |-> c] : c \in ValidContents}

\* every asset graph is planned with the Graph that removes no orphans; the
\* asset graphs of at most OrphanAssets assets with the other two as well
Init ==
  /\ bundlerConfig = NoBundlerConfig
  /\ assetGraph \in InputGraphs
  /\ graphOrphans \in (IF assetGraph.n <= OrphanAssets THEN OrphanModes
                       ELSE {"none"})
  /\ config \in Configs
  /\ InitPlanner

Phase1State ==
  [bg |-> bundleGraph, bundles |-> bundles, roots |-> bundleRoots.val,
   rootOrder |-> bundleRoots.order, dbg |-> dependencyBundleGraph,
   aref |-> assetReference, rb |-> reachableBundles,
   abrg |-> asyncBundleRootGraph, bgIds |-> bundleGroupBundleIds,
   assets |-> assets, stack |-> << >>, visited |-> {}]

SetPhase1(st) ==
  /\ bundleGraph' = st.bg
  /\ bundles' = st.bundles
  /\ bundleRoots' = [order |-> st.rootOrder, val |-> st.roots]
  /\ dependencyBundleGraph' = st.dbg
  /\ assetReference' = st.aref
  /\ reachableBundles' = st.rb
  /\ asyncBundleRootGraph' = st.abrg
  /\ bundleGroupBundleIds' = st.bgIds
  /\ assets' = st.assets

\* Step 1: the entries are collected, asyncBundleRootGraph gets its root node
\* and each entry gets a bundle
CreateEntryBundles ==
  /\ pc = "start"
  /\ pc' = "entries"
  /\ entries' = CollectEntries(assetGraph, 1, << >>)
  /\ SetPhase1(EntryBundles(assetGraph,
                            [Phase1State EXCEPT !.abrg = AddRootNode(@)],
                            entries'))
  /\ UNCHANGED << graphOrphans, bundlerConfig, assetGraph, config, reachableRoots, reachableAsyncRoots,
                  ancestorAssets, setObjects, assetRefsInBundleGroup >>

\* Step 1: the traversal that creates the async and type-change bundles
SplitPass ==
  /\ pc = "entries"
  /\ pc' = "split"
  /\ SetPhase1(WalkDeps(assetGraph, Phase1State, DepsFrom(assetGraph, 0, 1)))
  /\ UNCHANGED << graphOrphans, bundlerConfig, assetGraph, config, entries, reachableRoots,
                  reachableAsyncRoots, ancestorAssets, setObjects,
                  assetRefsInBundleGroup >>

\* Step 2: reachableRoots and reachableAsyncRoots
Reachability ==
  /\ pc = "split"
  /\ pc' = "reachable"
  /\ reachableRoots' = ReachableRootsOf(assetGraph, dependencyBundleGraph,
                                        DOMAIN bundleRoots.val)
  /\ reachableAsyncRoots' =
       [order |-> ReachableAsyncRootsOrder(assetGraph, dependencyBundleGraph,
                                           bundles, bundleRoots.order, << >>),
        val |-> ReachableAsyncRootsOf(assetGraph, dependencyBundleGraph,
                                      bundles, DOMAIN bundleRoots.val)]
  /\ UNCHANGED << graphOrphans, bundlerConfig, assetGraph, config, bundleGraph, bundles, bundleRoots,
                  dependencyBundleGraph, assetReference, reachableBundles,
                  asyncBundleRootGraph, bundleGroupBundleIds, entries, assets,
                  ancestorAssets, setObjects, assetRefsInBundleGroup >>

\* Step 2.5: ancestorAssets and the reference counts of the bundle groups
AncestorAvailability ==
  /\ pc = "reachable"
  /\ \E order \in topoSort(asyncBundleRootGraph) :
       LET s == AncestorLoop(bundleGraph, bundleRoots.val, reachableRoots,
                             asyncBundleRootGraph,
                             [anc |-> ancestorAssets, objs |-> setObjects,
                              refs |-> assetRefsInBundleGroup,
                              failed |-> FALSE],
                             order)
       IN /\ pc' = IF s.failed THEN "error" ELSE "ancestors"
          /\ ancestorAssets' = s.anc
          /\ setObjects' = s.objs
          /\ assetRefsInBundleGroup' = s.refs
  /\ UNCHANGED << graphOrphans, bundlerConfig, assetGraph, config, bundleGraph, bundles, bundleRoots,
                  dependencyBundleGraph, assetReference, reachableBundles,
                  asyncBundleRootGraph, bundleGroupBundleIds, entries, assets,
                  reachableRoots, reachableAsyncRoots >>

\* Step 3: every asset is placed
Placement ==
  /\ pc = "ancestors"
  /\ pc' = "placed"
  /\ LET p == PlaceAll(assetGraph, [bg |-> bundleGraph, bundles |-> bundles],
                       bundleRoots.val, bundleRoots.order, reachableRoots,
                       reachableAsyncRoots.val, reachableBundles,
                       ancestorAssets, setObjects, assetRefsInBundleGroup,
                       assets)
     IN /\ bundleGraph' = p.bg
        /\ bundles' = p.bundles
  /\ UNCHANGED << graphOrphans, bundlerConfig, assetGraph, config, bundleRoots, dependencyBundleGraph,
                  assetReference, reachableBundles, asyncBundleRootGraph,
                  bundleGroupBundleIds, entries, assets, reachableRoots,
                  reachableAsyncRoots, ancestorAssets, setObjects,
                  assetRefsInBundleGroup >>

\* Step 4: shared bundles below config.minBundleSize are removed
SmallSharedMerge ==
  /\ pc = "placed"
  /\ pc' = "merged"
  /\ bundleGraph' = MergeSmall(assetGraph, config, bundleGraph,
                               SetToSeq(DOMAIN bundleGraph.nodes))
  /\ UNCHANGED << graphOrphans, bundlerConfig, assetGraph, config, bundles, bundleRoots,
                  dependencyBundleGraph, assetReference, reachableBundles,
                  asyncBundleRootGraph, bundleGroupBundleIds, entries, assets,
                  reachableRoots, reachableAsyncRoots, ancestorAssets,
                  setObjects, assetRefsInBundleGroup >>

\* Step 4: siblings of the type of an entry bundle are merged into it
EntrySiblingFold ==
  /\ pc = "merged"
  /\ LET f == FoldEntries(assetGraph,
                          [bg |-> bundleGraph, rar |-> reachableAsyncRoots,
                           failed |-> FALSE, entryType |-> "none"],
                          bundleRoots.val, entries)
     IN /\ pc' = IF f.failed THEN "error" ELSE "folded"
        /\ bundleGraph' = f.bg
        /\ reachableAsyncRoots' = f.rar
  /\ UNCHANGED << graphOrphans, bundlerConfig, assetGraph, config, bundles, bundleRoots,
                  dependencyBundleGraph, assetReference, reachableBundles,
                  asyncBundleRootGraph, bundleGroupBundleIds, entries, assets,
                  reachableRoots, ancestorAssets, setObjects,
                  assetRefsInBundleGroup >>

\* Step 4: async bundle roots nothing reaches are removed; the plan is
\* returned, unless removeNode throws
OrphanDrop ==
  /\ pc = "folded"
  /\ LET d == DropOrphans([bg |-> bundleGraph, failed |-> FALSE],
                          reachableAsyncRoots.val, reachableAsyncRoots.order)
     IN /\ pc' = IF d.failed THEN "error" ELSE "done"
        /\ bundleGraph' = d.bg
  /\ UNCHANGED << graphOrphans, bundlerConfig, assetGraph, config, bundles, bundleRoots,
                  dependencyBundleGraph, assetReference, reachableBundles,
                  asyncBundleRootGraph, bundleGroupBundleIds, entries, assets,
                  reachableRoots, reachableAsyncRoots, ancestorAssets,
                  setObjects, assetRefsInBundleGroup >>

Next ==
  \/ CreateEntryBundles
  \/ SplitPass
  \/ Reachability
  \/ AncestorAvailability
  \/ Placement
  \/ SmallSharedMerge
  \/ EntrySiblingFold
  \/ OrphanDrop

Spec == Init /\ [][Next]_vars

\* ------------------------------------------------------------------------
\* The resolution of the config alone
\* ------------------------------------------------------------------------
InitConfig ==
  /\ graphOrphans = "none"
  /\ bundlerConfig \in BundlerConfigs
  /\ assetGraph = [n |-> 1, type |-> << "js" >>, ctx |-> << "browser" >>,
                   beh |-> << "none" >>, size |-> << 1 >>,
                   deps |-> << Dep(0, 1, "sync") >>]
  /\ config = [resolved |-> FALSE]
  /\ InitPlanner
  /\ pc = "start"

\* `let conf = await config.getConfig(...)`: the call is made and
\* loadBundlerConfig is suspended until the config is there
GetConfig ==
  /\ pc = "start"
  /\ config = [resolved |-> FALSE]
  /\ pc' = "getConfig"
  /\ UNCHANGED << graphOrphans, bundlerConfig, config, assetGraph, bundleGraph, bundles,
                  bundleRoots, dependencyBundleGraph, assetReference,
                  reachableBundles, asyncBundleRootGraph, bundleGroupBundleIds,
                  entries, assets, reachableRoots, reachableAsyncRoots,
                  ancestorAssets, setObjects, assetRefsInBundleGroup >>

\* getConfig has resolved: without a config the defaults of http 2 are
\* returned; with one, `await options.inputFS.readFile(conf.filePath)`
\* suspends loadBundlerConfig again
ReadFile ==
  /\ pc = "getConfig"
  /\ IF ~ bundlerConfig.found
     THEN config' = loadBundlerConfig(bundlerConfig) /\ pc' = "loaded"
     ELSE config' = config /\ pc' = "readFile"
  /\ UNCHANGED << graphOrphans, bundlerConfig, assetGraph, bundleGraph, bundles, bundleRoots,
                  dependencyBundleGraph, assetReference, reachableBundles,
                  asyncBundleRootGraph, bundleGroupBundleIds, entries, assets,
                  reachableRoots, reachableAsyncRoots, ancestorAssets,
                  setObjects, assetRefsInBundleGroup >>

\* readFile has resolved: the schema is validated and the options are read
\* from conf.contents as it is now
LoadBundlerConfig ==
  /\ pc = "readFile"
  /\ config' = loadBundlerConfig(bundlerConfig)
  /\ pc' = "loaded"
  /\ UNCHANGED << graphOrphans, bundlerConfig, assetGraph, bundleGraph, bundles, bundleRoots,
                  dependencyBundleGraph, assetReference, reachableBundles,
                  asyncBundleRootGraph, bundleGroupBundleIds, entries, assets,
                  reachableRoots, reachableAsyncRoots, ancestorAssets,
                  setObjects, assetRefsInBundleGroup >>

\* another callback runs while loadBundlerConfig is suspended and sets a
\* field of conf.contents, the object loadBundlerConfig reads afterwards
OtherCallback ==
  /\ pc \in {"getConfig", "readFile"}
  /\ bundlerConfig.found
  /\ \E f \in ConfigFields, v \in ConfigNumbers :
       LET c == [x \in DOMAIN bundlerConfig.contents \cup {f} |->
                   IF x = f THEN v ELSE bundlerConfig.contents[x]]
       IN /\ c \in ValidContents
          /\ bundlerConfig' = [bundlerConfig EXCEPT !.contents = c]
  /\ UNCHANGED << graphOrphans, config, pc, assetGraph, bundleGraph, bundles, bundleRoots,
                  dependencyBundleGraph, assetReference, reachableBundles,
                  asyncBundleRootGraph, bundleGroupBundleIds, entries, assets,
                  reachableRoots, reachableAsyncRoots, ancestorAssets,
                  setObjects, assetRefsInBundleGroup >>

NextConfig == GetConfig \/ ReadFile \/ LoadBundlerConfig \/ OtherCallback

SpecConfig == InitConfig /\ [][NextConfig]_vars

TypeOK == pc \in {"start", "entries", "split", "reachable", "ancestors",
                  "placed", "merged", "folded", "done", "error",
                  "getConfig", "readFile", "loaded"}

\* ------------------------------------------------------------------------
\* The emitted plan
\* ------------------------------------------------------------------------
Emitted == pc = "done"

BundleIds == DOMAIN bundleGraph.nodes

BundleAssets(b) == Range(bundleGraph.nodes[b].assets)

IsBundleRoot(a) == Has(bundleRoots.val, a)

\* the bundle nodes an asset is a member of
BundlesOf(a) == {b \in BundleIds : a \in BundleAssets(b)}

IsShared(b) == Len(bundleGraph.nodes[b].sourceBundles) > 0

\* ------------------------------------------------------------------------
\* C1: every asset visited by the split pass is, in the emitted plan, a
\* member of at least one bundle of bundleGraph.
\* ------------------------------------------------------------------------
C1_Coverage ==
  Emitted => \A a \in Range(assets) : BundlesOf(a) # {}

\* ------------------------------------------------------------------------
\* C2: in the emitted plan no asset is a member of two different bundles.
\* ------------------------------------------------------------------------
C2_UniqueAtEmission ==
  Emitted => \A a \in Range(assets) : Cardinality(BundlesOf(a)) <= 1

\* ------------------------------------------------------------------------
\* C3: in the emitted plan the size of every bundle is the sum of the sizes
\* of its assets.
\* ------------------------------------------------------------------------
C3_SizeIsSum ==
  Emitted =>
    \A b \in BundleIds :
      bundleGraph.nodes[b].size = SumOver(BundleAssets(b), assetGraph.size)

\* ------------------------------------------------------------------------
\* C4: an asset internalized in the bundle of a bundle root r is loaded on
\* every path from the root of asyncBundleRootGraph to r: some bundle root on
\* the path is the asset or reaches it synchronously.
\* ------------------------------------------------------------------------
Delivers(x, v) == x = v \/ << x, v >> \in reachableRoots

\* the nodes a path from the root reaches through nodes that do not deliver v
RECURSIVE ReachedWithout(_, _)
ReachedWithout(v, S) ==
  LET next == S \cup {e[2] : e \in {x \in Range(asyncBundleRootGraph.edges) :
                                      x[1] \in S /\ ~ Delivers(x[2], v)}}
  IN IF next = S THEN S ELSE ReachedWithout(v, next)

C4_InternalizationSound ==
  Emitted =>
    \A r \in DOMAIN bundleRoots.val :
      bundles[<< r >>] \in BundleIds =>
        \A v \in Range(bundleGraph.nodes[bundles[<< r >>]].internalizedAssetIds) :
          r \notin ReachedWithout(v, {0})

\* ------------------------------------------------------------------------
\* C5: every shared bundle of the emitted plan has at least two source
\* bundles and is not smaller than config.minBundleSize.
\* ------------------------------------------------------------------------
C5_SharedBundles ==
  Emitted =>
    \A b \in BundleIds :
      IsShared(b) =>
        /\ Len(bundleGraph.nodes[b].sourceBundles) >= 2
        /\ bundleGraph.nodes[b].size >= config.minBundleSize

\* the emitted plan has a shared bundle
C5_Witness ==
  /\ Emitted
  /\ \E b \in BundleIds : IsShared(b) /\ BundleAssets(b) # {}

\* ------------------------------------------------------------------------
\* C6: in the emitted plan all assets of a bundle have the same type and the
\* same env.context.
\* ------------------------------------------------------------------------
C6_Homogeneous ==
  Emitted =>
    \A b \in BundleIds : \A a1, a2 \in BundleAssets(b) :
      /\ assetGraph.type[a1] = assetGraph.type[a2]
      /\ assetGraph.ctx[a1] = assetGraph.ctx[a2]

\* ------------------------------------------------------------------------
\* C7: in the emitted plan an isolated or inline asset is alone in its
\* bundle and is in no other bundle.
\* ------------------------------------------------------------------------
C7_IsolatedInlineAlone ==
  Emitted =>
    \A a \in Range(assets) :
      assetGraph.beh[a] \in {"isolated", "inline"} =>
        /\ \A b \in BundlesOf(a) : BundleAssets(b) = {a}
        /\ Cardinality(BundlesOf(a)) <= 1

\* ------------------------------------------------------------------------
\* C8: an asset that is not a bundle root and is synchronously reachable from
\* an async bundle root L and from P, the only parent of L in
\* asyncBundleRootGraph, is in ancestorAssets[L] after step 2.5, and in the
\* emitted plan is neither in the bundle of L nor in a shared bundle that has
\* the bundle of L as a source.
\* ------------------------------------------------------------------------
AsyncParents(l) ==
  {e[1] : e \in {x \in Range(asyncBundleRootGraph.edges) : x[2] = l}}

\* the Set ancestorAssets.get(r), the empty set when there is none
AncestorAssetsOf(r) ==
  IF Has(ancestorAssets, r) THEN setObjects[ancestorAssets[r]] ELSE {}

C8_Case(p, l, u) ==
  /\ p # 0 /\ p # l
  /\ AsyncParents(l) = {p}
  /\ ~ IsBundleRoot(u)
  /\ << p, u >> \in reachableRoots
  /\ << l, u >> \in reachableRoots

C8_AncestorDedup ==
  \A p, l, u \in Range(assets) :
    C8_Case(p, l, u) =>
      /\ pc \in {"ancestors", "placed", "merged", "folded", "done"} =>
           u \in AncestorAssetsOf(l)
      /\ Emitted =>
           \A b \in BundleIds :
             u \in BundleAssets(b) =>
               /\ b # bundles[<< l >>]
               /\ bundles[<< l >>] \notin Range(bundleGraph.nodes[b].sourceBundles)

\* ------------------------------------------------------------------------
\* C9: two entries E1, E2 of one type that both synchronously reach an
\* asset S, not a bundle root and of size >= config.minBundleSize, that no
\* other bundle root reaches: the emitted plan has the bundles {E1}, {E2}
\* and a shared bundle {S} with sourceBundles [E1, E2] and edges from both.
\* ------------------------------------------------------------------------
EntryAssets == {entries[i][1] : i \in DOMAIN entries}

RootsReaching(a) == {e[1] : e \in {x \in reachableRoots : x[2] = a}}

C9_Case(e1, e2, s) ==
  /\ e1 \in EntryAssets /\ e2 \in EntryAssets /\ e1 # e2
  /\ assetGraph.type[e1] = assetGraph.type[e2]
  /\ ~ IsBundleRoot(s)
  /\ RootsReaching(s) = {e1, e2}
  /\ assetGraph.size[s] >= config.minBundleSize

BundleOfRoot(r) == bundleRoots.val[r][1]

SmallSharedIds ==
  {b \in BundleIds : IsSmallShared(bundleGraph.nodes[b], config)}

SourcesOf(b) == Range(bundleGraph.nodes[b].sourceBundles)

\* the sum of the sizes of the assets of the bundles bs
RECURSIVE SizeOfAssetsOf(_)
SizeOfAssetsOf(bs) ==
  IF bs = {} THEN 0
  ELSE LET b == CHOOSE x \in bs : TRUE
       IN SumOver(BundleAssets(b), assetGraph.size) + SizeOfAssetsOf(bs \ {b})

C10_MergeStep ==
  (pc = "placed" /\ pc' = "merged") =>
    /\ \A b \in SmallSharedIds :
         /\ b \notin DOMAIN bundleGraph'.nodes
         /\ \A src \in SourcesOf(b) :
              /\ src \in DOMAIN bundleGraph'.nodes
              /\ BundleAssets(b) \subseteq Range(bundleGraph'.nodes[src].assets)
    /\ \A src \in BundleIds \ SmallSharedIds :
         bundleGraph'.nodes[src].size =
           bundleGraph.nodes[src].size
           + SizeOfAssetsOf({b \in SmallSharedIds : src \in SourcesOf(b)})

C10_AfterMerge ==
  pc \in {"merged", "folded"} =>
    /\ DOMAIN bundleGraph'.nodes \subseteq BundleIds
    /\ \A b \in DOMAIN bundleGraph'.nodes :
         BundleAssets(b) \subseteq Range(bundleGraph'.nodes[b].assets)

C10_SmallSharedMerged == [][C10_MergeStep /\ C10_AfterMerge]_vars

\* the merge has removed a shared bundle of two sources, and an asset is a
\* member of both source bundles
C10_Witness ==
  /\ pc = "merged"
  /\ \E key \in DOMAIN bundles :
       /\ Len(key) >= 2
       /\ bundles[key] \notin BundleIds
       /\ \E a \in Range(assets) :
            /\ ~ IsBundleRoot(a)
            /\ \A i \in DOMAIN key : a \in BundleAssets(bundles[<< key[i] >>])

\* ------------------------------------------------------------------------
\* C11: an entry E that synchronously reaches X and imports X lazily, X of
\* the type of E.  If no other bundle root reaches X lazily, the emitted
\* plan has X in the bundle of E, and X is internalized in the bundle of E
\* or the bundle of X is removed; if another bundle root reaches X lazily,
\* the bundle of X is in the emitted plan.
\* ------------------------------------------------------------------------
\* the bundle roots that reach the bundle root x lazily, as step 2 finds them
LazyReachers(x) ==
  LET rar == ReachableAsyncRootsOf(assetGraph, dependencyBundleGraph, bundles,
                                   DOMAIN bundleRoots.val)
  IN IF Has(rar, bundles[<< x >>]) THEN rar[bundles[<< x >>]] ELSE {}

C11_Case(e, x) ==
  /\ e \in EntryAssets /\ x # e
  /\ assetGraph.type[e] = assetGraph.type[x]
  /\ << e, x >> \in reachableRoots
  /\ \E d \in DepIds(assetGraph) :
       /\ assetGraph.deps[d].src = e /\ assetGraph.deps[d].dst = x
       /\ assetGraph.deps[d].priority = "lazy"

C11_OnlyReacher ==
  Emitted =>
    \A e, x \in Range(assets) :
      (C11_Case(e, x) /\ LazyReachers(x) = {e}) =>
        /\ BundleOfRoot(e) \in BundleIds
        /\ x \in BundleAssets(BundleOfRoot(e))
        /\ \/ x \in Range(bundleGraph.nodes[BundleOfRoot(e)].internalizedAssetIds)
           \/ bundles[<< x >>] \notin BundleIds

\* the roots that the fold has left in reachableAsyncRoots of the bundle of x
StillLazyReachers(x) ==
  IF Has(reachableAsyncRoots.val, bundles[<< x >>])
  THEN reachableAsyncRoots.val[bundles[<< x >>]] ELSE {}

C11_OtherReacher ==
  Emitted =>
    \A e, x \in Range(assets) :
      (C11_Case(e, x) /\ StillLazyReachers(x) \ {e} # {}) =>
        bundles[<< x >>] \in BundleIds

C11_AsyncInternalization == C11_OnlyReacher /\ C11_OtherReacher

\* ------------------------------------------------------------------------
\* C12: a bundle root u, reachable from the root of asyncBundleRootGraph,
\* whose bundle is in the emitted plan, and a lazy dependency from an asset
\* of that bundle to v: if every path from the root to u has a bundle root
\* (u included) from which v is synchronously reachable, v is in the
\* internalizedAssetIds of the bundle of u.
\* ------------------------------------------------------------------------
\* the targets of the lazy dependencies of the assets of the bundle of u
LazyTargets(u) ==
  {assetGraph.deps[d].dst :
     d \in {x \in DepIds(assetGraph) :
              /\ assetGraph.deps[x].priority = "lazy"
              /\ assetGraph.deps[x].src \in BundleAssets(bundles[<< u >>])}}

\* the nodes of asyncBundleRootGraph a path from the root leads to
RECURSIVE AsyncReached(_)
AsyncReached(S) ==
  LET next == S \cup {e[2] : e \in {x \in Range(asyncBundleRootGraph.edges) :
                                      x[1] \in S}}
  IN IF next = S THEN S ELSE AsyncReached(next)

\* the nodes a path from the root reaches through bundle roots from which v
\* is not synchronously reachable
RECURSIVE ReachedWithoutSync(_, _)
ReachedWithoutSync(v, S) ==
  LET next == S \cup {e[2] : e \in {x \in Range(asyncBundleRootGraph.edges) :
                                      /\ x[1] \in S
                                      /\ << x[2], v >> \notin reachableRoots}}
  IN IF next = S THEN S ELSE ReachedWithoutSync(v, next)

C12_Case(u, v) ==
  /\ IsBundleRoot(u)
  /\ bundles[<< u >>] \in BundleIds
  /\ v \in LazyTargets(u)
  /\ u \in AsyncReached({0})
  /\ u \notin ReachedWithoutSync(v, {0})

C12_InternalizationComplete ==
  Emitted =>
    \A u, v \in Range(assets) :
      C12_Case(u, v) =>
        v \in Range(bundleGraph.nodes[bundles[<< u >>]].internalizedAssetIds)

\* ------------------------------------------------------------------------
\* C13: with no config the resolved config is {1, 20000, 25}; otherwise each
\* of minBundles, minBundleSize and maxParallelRequests is the value the
\* config gives, when it gives one, and else the default of the http version
\* (1: 1, 30000, 6; 2 or absent: 1, 20000, 25).
\* ------------------------------------------------------------------------
C13_Default(http, field) ==
  IF http = 1
  THEN (IF field = "minBundles" THEN 1
        ELSE IF field = "minBundleSize" THEN 30000 ELSE 6)
  ELSE (IF field = "minBundles" THEN 1
        ELSE IF field = "minBundleSize" THEN 20000 ELSE 25)

C13_ConfigResolution ==
  pc = "loaded" =>
    IF ~ bundlerConfig.found
    THEN config = [minBundles |-> 1, minBundleSize |-> 20000,
                   maxParallelRequests |-> 25]
    ELSE
      LET c == bundlerConfig.contents
          http == IF "http" \in DOMAIN c THEN c["http"] ELSE 2
      IN /\ DOMAIN config = {"minBundles", "minBundleSize", "maxParallelRequests"}
         /\ \A f \in DOMAIN config :
              config[f] = IF f \in DOMAIN c THEN c[f] ELSE C13_Default(http, f)

\* a config for http 1 that gives minBundleSize as 0 and no maxParallelRequests
C13_Witness ==
  /\ pc = "loaded"
  /\ bundlerConfig.found
  /\ "http" \in DOMAIN bundlerConfig.contents
  /\ bundlerConfig.contents["http"] = 1
  /\ "minBundleSize" \in DOMAIN bundlerConfig.contents
  /\ bundlerConfig.contents["minBundleSize"] = 0
  /\ "maxParallelRequests" \notin DOMAIN bundlerConfig.contents
  /\ config.minBundleSize = 0
  /\ config.maxParallelRequests = 6

\* ------------------------------------------------------------------------
\* C14: when asyncBundleRootGraph is acyclic and no entry and no target of
\* an async split is the target of a type-change split as well (and every node of the graph
\* is reached from 'root', so that step 2.5 visits it), after step 2.5 every
\* bundle root c with a parent other than 'root' in asyncBundleRootGraph has
\* ancestorAssets[c] equal to the intersection, over those parents p, of the
\* assets synchronously reachable from p united with ancestorAssets[p]; the
\* set of one root is not changed by the update of the set of another.
\* ------------------------------------------------------------------------
AsyncAcyclic ==
  \A e \in Range(asyncBundleRootGraph.edges) :
    e[1] \notin AsyncReached({e[2]})

IsTypeChangeOnly(g, d) == ~ IsAsyncSplit(g, d) /\ IsTypeChangeSplit(g, d)

\* the dependencies between two assets whose child asset is a
SplitDepsOnto(a) ==
  {d \in DepIds(assetGraph) :
     assetGraph.deps[d].dst = a /\ ~ IsEntryDep(assetGraph, d)}

\* the asset is the target of a dependency that makes an async split
AsyncSplitTarget(a) ==
  \E d \in SplitDepsOnto(a) : IsAsyncSplit(assetGraph, d)

\* the asset is the target of a dependency that makes a type-change split
TypeChangeTarget(a) ==
  \E d \in SplitDepsOnto(a) : IsTypeChangeOnly(assetGraph, d)

\* the assets synchronously loaded with the bundle root p
SyncAssetsLoaded(p) == {e[2] : e \in {x \in reachableRoots : x[1] = p}}

\* the intersection of the sets of the function f over the nonempty set ps
IntersectOver(ps, f) ==
  {a \in UNION {f[p] : p \in ps} : \A p \in ps : a \in f[p]}

C14_Case ==
  /\ pc \in {"ancestors", "placed", "merged", "folded", "done"}
  /\ AsyncAcyclic
  /\ Range(asyncBundleRootGraph.nodes) \subseteq AsyncReached({0})
  /\ \A a \in Range(assets) :
       (a \in EntryAssets \/ AsyncSplitTarget(a)) =>
         ~ TypeChangeTarget(a)

C14_AncestorAvailability ==
  C14_Case =>
    \A c \in DOMAIN bundleRoots.val :
      LET parents == AsyncParents(c) \ {0}
          Delivered == [p \in parents |->
                          SyncAssetsLoaded(p) \cup AncestorAssetsOf(p)]
      IN parents # {} =>
           /\ Has(ancestorAssets, c)
           /\ AncestorAssetsOf(c) = IntersectOver(parents, Delivered)

\* ------------------------------------------------------------------------
\* C15: the orphan drop removes a bundle node only if it is the bundle of an
\* async bundle root (the target of an async split, not an entry) whose set
\* in reachableAsyncRoots is empty; it removes no entry bundle, no bundle of
\* a type-change split and no shared bundle.
\* ------------------------------------------------------------------------
\* the node that phase 1 added for the i-th entry: the bundle its entry
\* dependency is connected to in dependencyBundleGraph
EntryBundleId(i) ==
  CHOOSE b \in 1 .. bundleGraph.nextId :
    \E t \in dependencyBundleGraph : t[1] = entries[i][2] /\ t[2] = b

\* the bundle nodes that the async split has created: the nodes pushed to
\* bundleGroupBundleIds that are not the bundles of the entries
AsyncRootBundles ==
  Range(bundleGroupBundleIds) \ {EntryBundleId(i) : i \in DOMAIN entries}

C15_DropStep ==
  (pc = "folded" /\ pc' = "done") =>
    \A b \in BundleIds \ DOMAIN bundleGraph'.nodes :
      /\ b \in AsyncRootBundles
      /\ Has(reachableAsyncRoots.val, b) /\ reachableAsyncRoots.val[b] = {}

C15_OrphanDropFrame == [][C15_DropStep]_vars

\* ------------------------------------------------------------------------
\* C16: after the split pass (phase 1) every asset is the root of at most
\* one bundle node of bundleGraph, however many dependencies point at it.
\* ------------------------------------------------------------------------
\* after phase 1 a bundle holds exactly the asset it was created with
BundlesCreatedFor(a) ==
  {b \in BundleIds : bundleGraph.nodes[b].assets[1] = a}

C16_SplitTargetOnce ==
  pc = "split" =>
    \A a \in Range(assets) : Cardinality(BundlesCreatedFor(a)) <= 1

\* ------------------------------------------------------------------------
\* C17: for every entry asset, the bundle created for it in phase 1 is a
\* node of the emitted bundleGraph and contains the entry asset.
\* ------------------------------------------------------------------------
C17_EntryBundlesSurvive ==
  Emitted =>
    \A i \in DOMAIN entries :
      /\ EntryBundleId(i) \in BundleIds
      /\ entries[i][1] \in BundleAssets(EntryBundleId(i))

\* ------------------------------------------------------------------------
\* C18: a bundle newly created by an async split has the bundleBehavior of
\* the dependency when the dependency has one, and the bundleBehavior of
\* the child asset otherwise.
\* ------------------------------------------------------------------------
\* dependency.bundleBehavior ?? childAsset.bundleBehavior
RequestedBehavior(g, d) ==
  IF g.deps[d].bundleBehavior # "none" THEN g.deps[d].bundleBehavior
  ELSE g.beh[g.deps[d].dst]

DepsOnto(g, x) == {d \in DepIds(g) : g.deps[d].dst = x}

\* every dependency onto x makes an async split, so that the bundle of x was
\* created by the async split of one of them
C18_Case(x) ==
  /\ pc = "split"
  /\ \A d \in DepsOnto(assetGraph, x) :
       ~ IsEntryDep(assetGraph, d) /\ IsAsyncSplit(assetGraph, d)

C18_AsyncBundleBehavior ==
  \A x \in Range(assets) :
    C18_Case(x) =>
      \E d \in DepsOnto(assetGraph, x) :
        bundleGraph.nodes[bundles[<< x >>]].bundleBehavior
          = RequestedBehavior(assetGraph, d)

====
